---- MODULE Spec2Model ----
(***************************************************************************)
(* Model of the ILD-features morphometry scripts:                          *)
(*   fractal.py            box-counting fractal dimension + batch driver   *)
(*   batch_tortuosity.py   tortuosity over a skeleton branch table + batch *)
(*   per_lobe_fractal.py   per-lobe fractal driver                         *)
(*   per_lobe_tortuosity.py per-lobe tortuosity driver                     *)
(*                                                                         *)
(* Three specifications share the module:                                  *)
(*   SpecFD     fractal_dimension_3D on a bounded family of volumes        *)
(*   SpecTort   compute_tortuosity on a bounded family of branch tables    *)
(*   SpecBatch  the four batch drivers over a bounded family of case lists *)
(***************************************************************************)
EXTENDS Integers, Sequences, FiniteSets, TLC

VARIABLES
    \* ---- fractal_dimension_3D ----
    shape,        \* array.shape, a triple of axis extents
    voxels,       \* coordinates of the occupied cells (np.where(array > 0))
    n_offsets,    \* the n_offsets argument
    scales,       \* np.unique(floor(logspace(...))), ascending
    touched,      \* touched[si][oi]: boxes hit at scale si for offset oi
    Ns,           \* per-scale minimum over offsets (Ns.min(axis=1))
    fit_scales,   \* scales handed to np.polyfit
    fit_Ns,       \* counts handed to np.polyfit
    fd_ret,       \* "none" | "slope" | "ValueError" | "TypeError"
    fpc,          \* position inside fractal_dimension_3D
    \* ---- compute_tortuosity ----
    df,           \* the branch table (sequence of rows)
    df_tort,      \* retained rows with euclid-length and tortuosity
    tort_ret,     \* [kind, mean, weighted] returned by compute_tortuosity
    tpc,          \* position inside compute_tortuosity
    \* ---- batch drivers ----
    driver,       \* which of the four drivers runs
    cases,        \* the files found in the input directory, in loop order
    idx,          \* loop position (1-based index of the next file)
    results,      \* flat drivers: set of <<case id, value>> entries
    all_results,  \* per-lobe drivers: list of patient entries
    patient_results, \* per-lobe drivers: entry under construction
    lobe_i,       \* per-lobe drivers: next lobe label to compute
    reported,     \* ids printed as "Error processing ..."
    warned,       \* ids printed as "WARNING: Lobe segmentation not found"
    written,      \* number of json.dump calls on the output file
    bpc           \* position inside the driver

fdvars == <<shape, voxels, n_offsets, scales, touched, Ns, fit_scales, fit_Ns, fd_ret, fpc>>
tortvars == <<df, df_tort, tort_ret, tpc>>
batchvars == <<driver, cases, idx, results, all_results, patient_results, lobe_i,
               reported, warned, written, bpc>>
vars == <<fdvars, tortvars, batchvars>>

----------------------------------------------------------------------------
(* Bounds of the explored input families *)

MaxSide == 8
MaxVoxels == 3
MaxOffsets == 3
MaxBranches == 3
MaxCases == 2
MaxLobes == 2

(* Defaults of fractal_dimension_3D *)
min_box_size == 1
n_samples == 20

(* Default of compute_tortuosity (1e-6); every length of the model is      *)
(* measured in units of this threshold                                      *)
length_threshold == 1

----------------------------------------------------------------------------
(* Generic helpers *)

SetMin(S) == CHOOSE m \in S : \A x \in S : m <= x

SetMax(S) == CHOOSE m \in S : \A x \in S : m >= x

RECURSIVE SortedSeq(_)
SortedSeq(S) == IF S = {} THEN <<>>
                ELSE LET m == SetMin(S) IN <<m>> \o SortedSeq(S \ {m})

SeqRange(s) == {s[i] : i \in DOMAIN s}

RECURSIVE Pow(_, _)
Pow(b, e) == IF e = 0 THEN 1 ELSE b * Pow(b, e - 1)

(* floor(log2(n)) for n >= 1 *)
RECURSIVE FloorLog2(_)
FloorLog2(n) == IF n < 2 THEN 0 ELSE 1 + FloorLog2(n \div 2)

----------------------------------------------------------------------------
(* Exact arithmetic on large naturals, little-endian limbs in base 10000,    *)
(* used only to take floor(2^(a/(n_samples-1))) without overflow.            *)

RECURSIVE BigMulCarry(_, _, _)
BigMulCarry(x, k, carry) ==
    IF x = <<>> THEN (IF carry = 0 THEN <<>> ELSE BigMulCarry(<<carry>>, 1, 0))
    ELSE LET t == Head(x) * k + carry
         IN <<t % 10000>> \o BigMulCarry(Tail(x), k, t \div 10000)

RECURSIVE BigPow(_, _)
BigPow(b, e) == IF e = 0 THEN <<1>> ELSE BigMulCarry(BigPow(b, e - 1), b, 0)

(* 2^e, thirteen doublings at a time *)
RECURSIVE BigPow2(_)
BigPow2(e) == IF e <= 13 THEN <<Pow(2, e)>> ELSE BigMulCarry(BigPow2(e - 13), 8192, 0)

RECURSIVE BigLeqFrom(_, _, _)
BigLeqFrom(x, y, i) ==
    IF i = 0 THEN TRUE
    ELSE IF x[i] # y[i] THEN x[i] < y[i]
    ELSE BigLeqFrom(x, y, i - 1)

BigLeq(x, y) == IF Len(x) # Len(y) THEN Len(x) < Len(y)
                ELSE BigLeqFrom(x, y, Len(x))

----------------------------------------------------------------------------
(* fractal_dimension_3D: scale schedule (fractal.py 11-15)                  *)

(* floor(2^(a/d)): the largest k with k^d <= 2^a *)
FloorPow2(a, d, hi) ==
    CHOOSE k \in 1..hi : /\ BigLeq(BigPow(k, d), BigPow2(a))
                         /\ ~BigLeq(BigPow(k + 1, d), BigPow2(a))

(* np.unique(np.floor(np.logspace(max_box_size, min_box_size, n_samples, base=2))) *)
(* sample j of the linspace is max_box_size + j*(min_box_size-max_box_size)/(n-1) *)
ScalesFor(max_box_size) ==
    LET d == n_samples - 1
        hi == Pow(2, SetMax({max_box_size, min_box_size}))
        sample(j) == FloorPow2(d * max_box_size + (min_box_size - max_box_size) * j, d, hi)
    IN SortedSeq({sample(j) : j \in 0..d})

(* the schedule of every max_box_size the input family can produce *)
ScaleTable == {<<m, ScalesFor(m)>> : m \in 0..FloorLog2(MaxSide)}

(* max_box_size = int(floor(log2(min(array.shape)))) when not given *)
Scales(shp) ==
    LET max_box_size == FloorLog2(SetMin(SeqRange(shp)))
    IN (CHOOSE p \in ScaleTable : p[1] = max_box_size)[2]

----------------------------------------------------------------------------
(* fractal_dimension_3D: box counting (fractal.py 25-40)                    *)

(* offsets = [0] if n_offsets == 0 else np.linspace(0, scale, n_offsets),   *)
(* each offset kept as the exact fraction num/den                           *)
Offsets(scale, n) ==
    IF n = 0 THEN << [num |-> 0, den |-> 1] >>
    ELSE IF n = 1 THEN << [num |-> 0, den |-> 1] >>
    ELSE [j \in 1..n |-> [num |-> (j - 1) * scale, den |-> n - 1]]

(* np.hstack([0 - offset, np.arange(0, extent, scale) + offset]),           *)
(* every edge multiplied by off.den so that it stays an integer             *)
BinEdges(extent, scale, off) ==
    LET m == (extent - 1) \div scale
    IN << 0 - off.num >> \o [k \in 1..(m + 1) |-> (k - 1) * scale * off.den + off.num]

(* BinIndex with searchsorted(side='left') *)
BinIndexLeft(p, edges, den) ==
    LET pos == Cardinality({k \in DOMAIN edges : edges[k] < p * den})
    IN IF p * den = edges[Len(edges)] THEN pos - 1 ELSE pos

(* np.histogramdd's bin of coordinate p along one axis: searchsorted(side= *)
(* 'right'), a value on the last edge moved into the last bin; 0 and        *)
(* Len(edges) are the two outlier bins                                      *)
BinIndex(p, edges, den) ==
    LET pos == Cardinality({k \in DOMAIN edges : edges[k] <= p * den})
    IN IF p * den = edges[Len(edges)] THEN pos - 1 ELSE pos

(* np.sum(H1 > 0): bins of the histogram core that hold a voxel *)
BoxesTouched(vox, shp, scale, off) ==
    LET e == [a \in 1..3 |-> BinEdges(shp[a], scale, off)]
        bin(v) == [a \in 1..3 |-> BinIndex(v[a], e[a], off.den)]
        inside(b) == \A a \in 1..3 : b[a] >= 1 /\ b[a] <= Len(e[a]) - 1
    IN Cardinality({b \in {bin(v) : v \in vox} : inside(b)})

(* the Ns matrix built by the two loops *)
TouchedMatrix(vox, shp, sc, n) ==
    [si \in DOMAIN sc |->
        LET offs == Offsets(sc[si], n)
        IN [oi \in DOMAIN offs |-> BoxesTouched(vox, shp, sc[si], offs[oi])]]

(* Ns.min(axis=1) *)
RowMin(mat) == [si \in DOMAIN mat |-> SetMin(SeqRange(mat[si]))]

----------------------------------------------------------------------------
(* fractal_dimension_3D: reduction and fit (fractal.py 42-49)               *)

(* np.unique(Ns) *)
UniqueCounts(ns) == SortedSeq(SeqRange(ns))

(* scales = [np.min(scales[Ns == x]) for x in np.unique(Ns)] *)
ScalesPerCount(sc, ns) ==
    LET u == UniqueCounts(ns)
    IN [i \in DOMAIN u |-> SetMin({sc[k] : k \in {k \in DOMAIN sc : ns[k] = u[i]}})]

(* Ns = np.unique(Ns); Ns = Ns[Ns > 0] *)
PositiveCounts(ns) == SelectSeq(UniqueCounts(ns), LAMBDA c : c > 0)

(* scales = scales[:len(Ns)] *)
ReducedScales(sc, ns) == SubSeq(ScalesPerCount(sc, ns), 1, Len(PositiveCounts(ns)))

(* np.polyfit(x, y, 1): TypeError on an empty x, otherwise a coefficient   *)
(* vector (a rank-deficient system only emits RankWarning)                   *)
Polyfit(npoints) == IF npoints = 0 THEN "TypeError" ELSE "slope"

----------------------------------------------------------------------------
(* Input family for fractal_dimension_3D *)

Cube(n) == {<<x, y, z>> : x \in 0..(n - 1), y \in 0..(n - 1), z \in 0..(n - 1)}

SampleLine(n) == {<<x, 0, 0>> : x \in 0..(n - 1)} \cup {<<x, x, x>> : x \in 0..(n - 1)}

VoxelSets(n) ==
    {Cube(n)} \cup {{v} : v \in Cube(n)}
    \cup {S \in SUBSET SampleLine(n) : Cardinality(S) <= MaxVoxels}

FDIdle ==
    /\ shape = <<1, 1, 1>> /\ voxels = {} /\ n_offsets = 0
    /\ scales = <<>> /\ touched = <<>> /\ Ns = <<>>
    /\ fit_scales = <<>> /\ fit_Ns = <<>> /\ fd_ret = "none" /\ fpc = "idle"

FDInit ==
    /\ \E n \in 2..MaxSide : shape = <<n, n, n>> /\ voxels \in VoxelSets(n)
    /\ n_offsets \in 0..MaxOffsets
    /\ scales = <<>> /\ touched = <<>> /\ Ns = <<>>
    /\ fit_scales = <<>> /\ fit_Ns = <<>> /\ fd_ret = "none" /\ fpc = "start"

(* lines 11-19: the scale schedule and the voxel list *)
MakeScales ==
    /\ fpc = "start"
    /\ scales' = Scales(shape)
    /\ fpc' = "scales"
    /\ UNCHANGED <<shape, voxels, n_offsets, touched, Ns, fit_scales, fit_Ns, fd_ret>>

(* lines 25-40: histogramdd rejects the empty voxel list (its sample has    *)
(* one column, the bins have three)                                          *)
CountBoxesRaises ==
    /\ fpc = "scales"
    /\ voxels = {}
    /\ fd_ret' = "ValueError"
    /\ fpc' = "raised"
    /\ UNCHANGED <<shape, voxels, n_offsets, scales, touched, Ns, fit_scales, fit_Ns>>

CountBoxes ==
    /\ fpc = "scales"
    /\ voxels # {}
    /\ touched' = TouchedMatrix(voxels, shape, scales, n_offsets)
    /\ Ns' = RowMin(touched')
    /\ fpc' = "counted"
    /\ UNCHANGED <<shape, voxels, n_offsets, scales, fit_scales, fit_Ns, fd_ret>>

(* lines 42-46 *)
Reduce ==
    /\ fpc = "counted"
    /\ fit_scales' = ReducedScales(scales, Ns)
    /\ fit_Ns' = PositiveCounts(Ns)
    /\ fpc' = "reduced"
    /\ UNCHANGED <<shape, voxels, n_offsets, scales, touched, Ns, fd_ret>>

(* lines 49-63 *)
Fit ==
    /\ fpc = "reduced"
    /\ fd_ret' = Polyfit(Len(fit_scales))
    /\ fpc' = IF fd_ret' = "slope" THEN "done" ELSE "raised"
    /\ UNCHANGED <<shape, voxels, n_offsets, scales, touched, Ns, fit_scales, fit_Ns>>


----------------------------------------------------------------------------
(* compute_tortuosity (batch_tortuosity.py 11-21, per_lobe_tortuosity.py    *)
(* 12-22): floating-point values are kept as exact fractions, or as the     *)
(* nan / inf that a float64 division by zero yields                          *)

RECURSIVE GCD(_, _)
GCD(a, b) == IF b = 0 THEN a ELSE GCD(b, a % b)

Rat(n, d) == LET g == GCD(n, d) IN [kind |-> "num", num |-> n \div g, den |-> d \div g]

NaN == [kind |-> "nan", num |-> 0, den |-> 0]

Inf == [kind |-> "inf", num |-> 1, den |-> 0]

Zero == Rat(0, 1)

FAdd(a, b) == Rat(a.num * b.den + b.num * a.den, a.den * b.den)

FMul(a, b) == Rat(a.num * b.num, a.den * b.den)

(* numpy float64 division: 0/0 is nan, x/0 is inf, with a RuntimeWarning only *)
FDiv(a, b) == IF b.num = 0 THEN (IF a.num = 0 THEN NaN ELSE Inf)
              ELSE Rat(a.num * b.den, a.den * b.num)

RECURSIVE FSum(_)
FSum(s) == IF s = <<>> THEN Zero ELSE FAdd(Head(s), FSum(Tail(s)))

Dist2(r) == (r.src[1] - r.dst[1]) * (r.src[1] - r.dst[1])
          + (r.src[2] - r.dst[2]) * (r.src[2] - r.dst[2])
          + (r.src[3] - r.dst[3]) * (r.src[3] - r.dst[3])

IsSquare(n) == \E q \in 0..n : q * q = n

(* np.linalg.norm(xyz_start - xyz_end, axis=1) for one row; the input       *)
(* family only holds rows whose norm is an integer                           *)
Euclid(r) == CHOOSE q \in 0..Dist2(r) : q * q = Dist2(r)

(* Retained with >= in place of > *)
RetainedGeq(d) == SelectSeq(d, LAMBDA r : Euclid(r) >= length_threshold)

(* df[df["euclid-length"] > length_threshold] *)
Retained(d) == SelectSeq(d, LAMBDA r : Euclid(r) > length_threshold)

(* df_tort["tortuosity"] = df_tort["branch-distance"] / df_tort["euclid-length"] *)
Tortuosity(len, euclid) == FDiv(Rat(len, 1), Rat(euclid, 1))

TortTable(d) ==
    LET kept == Retained(d)
    IN [i \in DOMAIN kept |->
          [len |-> kept[i].len, euclid |-> Euclid(kept[i]),
           tortuosity |-> Tortuosity(kept[i].len, Euclid(kept[i]))]]

(* (branch-distance * tortuosity).sum() / branch-distance.sum() *)
WeightedTortuosity(dt) ==
    FDiv(FSum([i \in DOMAIN dt |-> FMul(Rat(dt[i].len, 1), dt[i].tortuosity)]),
         FSum([i \in DOMAIN dt |-> Rat(dt[i].len, 1)]))

(* df_tort["tortuosity"].mean() *)
MeanTortuosity(dt) ==
    FDiv(FSum([i \in DOMAIN dt |-> dt[i].tortuosity]), Rat(Len(dt), 1))

RECURSIVE SeqsUpTo(_, _)
SeqsUpTo(S, n) ==
    IF n = 0 THEN {<<>>}
    ELSE LET shorter == SeqsUpTo(S, n - 1)
         IN shorter \cup {Append(q, x) : q \in {q \in shorter : Len(q) = n - 1}, x \in S}

BranchRows ==
    {r \in [src : {<<0, 0, 0>>, <<0, 0, 1>>},
            dst : {<<0, 0, 1>>, <<0, 0, 5>>, <<0, 0, 10>>, <<3, 4, 0>>},
            len : {0, 5, 10}] : IsSquare(Dist2(r))}

TortIdle ==
    /\ df = <<>> /\ df_tort = <<>> /\ tort_ret = [kind |-> "none"] /\ tpc = "idle"

TortInit ==
    /\ df \in SeqsUpTo(BranchRows, MaxBranches)
    /\ df_tort = <<>> /\ tort_ret = [kind |-> "none"] /\ tpc = "start"

(* lines 12-18 *)
FilterBranches ==
    /\ tpc = "start"
    /\ df_tort' = TortTable(df)
    /\ tpc' = "filtered"
    /\ UNCHANGED <<df, tort_ret>>

(* lines 19-21 *)
Aggregate ==
    /\ tpc = "filtered"
    /\ tort_ret' = [kind |-> "returned",
                    mean |-> MeanTortuosity(df_tort),
                    weighted |-> WeightedTortuosity(df_tort)]
    /\ tpc' = "done"
    /\ UNCHANGED <<df, df_tort>>


----------------------------------------------------------------------------
(* Batch drivers: fractal.process_folder, batch_tortuosity.main,            *)
(* per_lobe_fractal.calculate_lobe_fractals,                                 *)
(* per_lobe_tortuosity.calculate_lobe_tortuosity.                            *)
(* A case is a directory entry; what its processing does is an input:       *)
(*   nifti        the name ends in .nii.gz                                   *)
(*   lobe_file    os.path.exists(lobe_file) (per-lobe drivers)               *)
(*   load_raises  reading the image / the whole-case computation raises      *)
(*   lobes        one flag per non-zero lobe label: its computation raises   *)
(* The identifier of a case is its position in the listing.                  *)

FlatDrivers == {"process_folder", "batch_tortuosity_main"}

LobeDrivers == {"calculate_lobe_fractals", "calculate_lobe_tortuosity"}

Drivers == FlatDrivers \cup LobeDrivers

CaseSet(drv) ==
    IF drv = "process_folder"
    THEN [nifti : {TRUE}, lobe_file : {TRUE}, load_raises : BOOLEAN, lobes : {<<>>}]
    ELSE IF drv = "batch_tortuosity_main"
    THEN [nifti : BOOLEAN, lobe_file : {TRUE}, load_raises : BOOLEAN, lobes : {<<>>}]
    ELSE [nifti : {TRUE}, lobe_file : BOOLEAN, load_raises : BOOLEAN,
          lobes : SeqsUpTo(BOOLEAN, MaxLobes)]

NoPatient == [patient_id |-> 0, lobes |-> <<>>]

BatchIdle ==
    /\ driver = "none" /\ cases = <<>> /\ idx = 0 /\ results = <<>>
    /\ all_results = <<>> /\ patient_results = NoPatient /\ lobe_i = 0
    /\ reported = {} /\ warned = {} /\ written = 0 /\ bpc = "idle"

BatchInit ==
    /\ driver \in Drivers
    /\ cases \in SeqsUpTo(CaseSet(driver), MaxCases)
    /\ idx = 1 /\ results = <<>> /\ all_results = <<>>
    /\ patient_results = NoPatient /\ lobe_i = 0
    /\ reported = {} /\ warned = {} /\ written = 0 /\ bpc = "loop"

(* batch_tortuosity.main 49: a name that does not end in .nii.gz is passed over *)
FlatSkip ==
    /\ bpc = "loop" /\ driver = "batch_tortuosity_main" /\ idx <= Len(cases)
    /\ ~cases[idx].nifti
    /\ idx' = idx + 1
    /\ UNCHANGED <<driver, cases, results, all_results, patient_results, lobe_i,
                   reported, warned, written, bpc>>

(* FlatProcess leaving the loop on the first exception *)
FlatProcessBreak ==
    /\ bpc = "loop" /\ driver \in FlatDrivers /\ idx <= Len(cases)
    /\ cases[idx].nifti
    /\ IF cases[idx].load_raises
       THEN /\ reported' = reported \cup {idx}
            /\ idx' = Len(cases) + 1
            /\ UNCHANGED results
       ELSE /\ results' = [i \in DOMAIN results \cup {idx} |-> "value"]
            /\ idx' = idx + 1
            /\ UNCHANGED reported
    /\ UNCHANGED <<driver, cases, all_results, patient_results, lobe_i, warned, written, bpc>>

(* fractal.process_folder 74-88, batch_tortuosity.main 50-60: one iteration *)
FlatProcess ==
    /\ bpc = "loop" /\ driver \in FlatDrivers /\ idx <= Len(cases)
    /\ cases[idx].nifti
    /\ IF cases[idx].load_raises
       THEN /\ reported' = reported \cup {idx}
            /\ UNCHANGED results
       ELSE /\ results' = [i \in DOMAIN results \cup {idx} |-> "value"]
            /\ UNCHANGED reported
    /\ idx' = idx + 1
    /\ UNCHANGED <<driver, cases, all_results, patient_results, lobe_i, warned, written, bpc>>

(* per_lobe_*: lobe file missing -> warning and continue *)
LobeSkipMissing ==
    /\ bpc = "loop" /\ driver \in LobeDrivers /\ idx <= Len(cases)
    /\ ~cases[idx].lobe_file
    /\ warned' = warned \cup {idx}
    /\ idx' = idx + 1
    /\ UNCHANGED <<driver, cases, results, all_results, patient_results, lobe_i,
                   reported, written, bpc>>

(* per_lobe_*: read both images, start the patient's entry; an exception   *)
(* goes to the except clause of the case                                     *)
LobeLoad ==
    /\ bpc = "loop" /\ driver \in LobeDrivers /\ idx <= Len(cases)
    /\ cases[idx].lobe_file
    /\ IF cases[idx].load_raises
       THEN /\ reported' = reported \cup {idx}
            /\ idx' = idx + 1
            /\ UNCHANGED <<patient_results, lobe_i, bpc>>
       ELSE /\ patient_results' = [patient_id |-> idx, lobes |-> <<>>]
            /\ lobe_i' = 1
            /\ bpc' = "lobes"
            /\ UNCHANGED <<reported, idx>>
    /\ UNCHANGED <<driver, cases, results, all_results, warned, written>>

(* LobeCompute appending the partly filled entry when a lobe raises *)
LobeComputeKeepPartial ==
    /\ bpc = "lobes" /\ lobe_i <= Len(cases[idx].lobes)
    /\ IF cases[idx].lobes[lobe_i]
       THEN /\ reported' = reported \cup {idx}
            /\ all_results' = Append(all_results, patient_results)
            /\ idx' = idx + 1
            /\ bpc' = "loop"
            /\ UNCHANGED <<patient_results, lobe_i>>
       ELSE /\ patient_results' =
                  [patient_results EXCEPT !.lobes =
                      [l \in DOMAIN patient_results.lobes \cup {lobe_i} |-> "value"]]
            /\ lobe_i' = lobe_i + 1
            /\ UNCHANGED <<reported, idx, bpc, all_results>>
    /\ UNCHANGED <<driver, cases, results, warned, written>>

(* per_lobe_*: one iteration of the loop over unique_lobes; an exception   *)
(* leaves the try block, so the entry under construction is never appended  *)
LobeCompute ==
    /\ bpc = "lobes" /\ lobe_i <= Len(cases[idx].lobes)
    /\ IF cases[idx].lobes[lobe_i]
       THEN /\ reported' = reported \cup {idx}
            /\ idx' = idx + 1
            /\ bpc' = "loop"
            /\ UNCHANGED <<patient_results, lobe_i>>
       ELSE /\ patient_results' =
                  [patient_results EXCEPT !.lobes =
                      [l \in DOMAIN patient_results.lobes \cup {lobe_i} |-> "value"]]
            /\ lobe_i' = lobe_i + 1
            /\ UNCHANGED <<reported, idx, bpc>>
    /\ UNCHANGED <<driver, cases, results, all_results, warned, written>>

(* per_lobe_*: all_results.append(patient_results) after the lobe loop *)
LobeAppend ==
    /\ bpc = "lobes" /\ lobe_i > Len(cases[idx].lobes)
    /\ all_results' = Append(all_results, patient_results)
    /\ idx' = idx + 1
    /\ bpc' = "loop"
    /\ UNCHANGED <<driver, cases, results, patient_results, lobe_i, reported, warned, written>>

(* json.dump of the aggregate after the loop *)
WriteOutput ==
    /\ bpc = "loop" /\ idx > Len(cases)
    /\ written' = written + 1
    /\ bpc' = "done"
    /\ UNCHANGED <<driver, cases, idx, results, all_results, patient_results, lobe_i,
                   reported, warned>>

----------------------------------------------------------------------------
(* Specifications *)

InitFD == FDInit /\ TortIdle /\ BatchIdle

NextFD ==
    \/ (MakeScales /\ UNCHANGED <<tortvars, batchvars>>)
    \/ (CountBoxesRaises /\ UNCHANGED <<tortvars, batchvars>>)
    \/ (CountBoxes /\ UNCHANGED <<tortvars, batchvars>>)
    \/ (Reduce /\ UNCHANGED <<tortvars, batchvars>>)
    \/ (Fit /\ UNCHANGED <<tortvars, batchvars>>)

SpecFD == InitFD /\ [][NextFD]_vars

InitTort == FDIdle /\ TortInit /\ BatchIdle

NextTort ==
    \/ (FilterBranches /\ UNCHANGED <<fdvars, batchvars>>)
    \/ (Aggregate /\ UNCHANGED <<fdvars, batchvars>>)

SpecTort == InitTort /\ [][NextTort]_vars

InitBatch == FDIdle /\ TortIdle /\ BatchInit

NextBatch ==
    \/ (FlatSkip /\ UNCHANGED <<fdvars, tortvars>>)
    \/ (FlatProcess /\ UNCHANGED <<fdvars, tortvars>>)
    \/ (LobeSkipMissing /\ UNCHANGED <<fdvars, tortvars>>)
    \/ (LobeLoad /\ UNCHANGED <<fdvars, tortvars>>)
    \/ (LobeCompute /\ UNCHANGED <<fdvars, tortvars>>)
    \/ (LobeAppend /\ UNCHANGED <<fdvars, tortvars>>)
    \/ (WriteOutput /\ UNCHANGED <<fdvars, tortvars>>)

SpecBatch == InitBatch /\ [][NextBatch]_vars


----------------------------------------------------------------------------
(* Properties of fractal_dimension_3D (SpecFD) *)

Counted == fpc \in {"counted", "reduced", "done"} \/ (fpc = "raised" /\ voxels # {})

Reduced == fpc \in {"reduced", "done"} \/ (fpc = "raised" /\ voxels # {})

IsPowerOfTwo(n) == n = Pow(2, FloorLog2(n))

FilledCube == voxels = Cube(shape[1]) /\ IsPowerOfTwo(shape[1])

(* C1: for a fully occupied cube of side 2^k and n_offsets = 0, the count   *)
(* recorded at every tested scale s that is a power of two up to 2^k is     *)
(* exactly (2^k / s)^3                                                       *)
C1_FilledCubeCounts ==
    (Counted /\ FilledCube /\ n_offsets = 0) =>
        \A si \in DOMAIN scales :
            (IsPowerOfTwo(scales[si]) /\ scales[si] <= shape[1]) =>
                Ns[si] = Pow(shape[1] \div scales[si], 3)

(* C2: the function ends in an error, never in a slope, when the volume is *)
(* empty or fewer than 2 (scale, count) points survive the reduction        *)
C2_DegenerateFitRaises ==
    (fpc \in {"done", "raised"} /\ (voxels = {} \/ Len(fit_scales) < 2)) =>
        fd_ret \in {"ValueError", "TypeError"}

(* C5 as stated: for every two tested scales s1 < s2, count(s1) >= count(s2) *)
C5_MonotoneCounts ==
    Counted =>
        \A i, j \in DOMAIN scales : scales[i] < scales[j] => Ns[i] >= Ns[j]

(* C5 amended: with offsets disabled (n_offsets = 0), for every two tested *)
(* scales s1 < s2 such that s1 divides s2, count(s1) >= count(s2)           *)
C5_MonotoneDividingScales ==
    (Counted /\ n_offsets = 0) =>
        \A i, j \in DOMAIN scales :
            (scales[i] < scales[j] /\ scales[j] % scales[i] = 0) => Ns[i] >= Ns[j]

C5_Witness ==
    /\ Counted /\ n_offsets = 0
    /\ \E i, j \in DOMAIN scales :
          /\ scales[i] < scales[j] /\ scales[j] % scales[i] = 0
          /\ Ns[i] > Ns[j] /\ Ns[j] > 0

(* C8: after the reduction every count handed to the fit is positive, each *)
(* distinct positive count appears exactly once, and the scale paired with  *)
(* count c is the smallest tested scale whose box count was c               *)
C8_ReducedPoints ==
    Reduced =>
        /\ Len(fit_scales) = Len(fit_Ns)
        /\ \A k \in DOMAIN fit_Ns : fit_Ns[k] > 0
        /\ \A k, l \in DOMAIN fit_Ns : fit_Ns[k] = fit_Ns[l] => k = l
        /\ SeqRange(fit_Ns) = {c \in SeqRange(Ns) : c > 0}
        /\ \A k \in DOMAIN fit_Ns :
              k \in DOMAIN fit_scales =>
                 fit_scales[k] = SetMin({scales[i] : i \in {i \in DOMAIN scales : Ns[i] = fit_Ns[k]}})

(* C9: for every tested scale and offset the bin edges of each axis start  *)
(* at 0 - o, advance in equal steps of s and reach at least the extent, so  *)
(* a non-empty volume has a box count >= 1 at every scale and offset        *)
C9_EdgesCoverExtent ==
    Counted =>
        \A si \in DOMAIN scales :
            LET offs == Offsets(scales[si], n_offsets)
            IN \A oi \in DOMAIN offs :
                 /\ \A a \in 1..3 :
                       LET e == BinEdges(shape[a], scales[si], offs[oi])
                       IN /\ e[1] = 0 - offs[oi].num
                          /\ \A k \in 1..(Len(e) - 1) : e[k + 1] - e[k] = scales[si] * offs[oi].den
                          /\ e[Len(e)] >= shape[a] * offs[oi].den
                 /\ touched[si][oi] >= 1

----------------------------------------------------------------------------
(* Properties of compute_tortuosity (SpecTort) *)

IsOne(x) == x.kind = "num" /\ x.num = x.den

FloatEq(x, y) == x.kind = "num" /\ y.kind = "num" /\ x.num * y.den = y.num * x.den

RetainedRows == {i \in DOMAIN df : Euclid(df[i]) > length_threshold}

RECURSIVE SumLen(_)
SumLen(I) == IF I = {} THEN 0 ELSE LET i == CHOOSE i \in I : TRUE IN df[i].len + SumLen(I \ {i})

(* C3: an explicit failure, never a returned pair, when the table is empty, *)
(* no branch is longer than the threshold, or the retained path lengths     *)
(* sum to zero                                                               *)
C3_DegenerateReported ==
    (tpc = "done" /\ (df = <<>> \/ RetainedRows = {} \/ SumLen(RetainedRows) = 0)) =>
        tort_ret.kind = "raised"

(* C6: when all retained branches have the same path length, the returned  *)
(* weighted tortuosity equals the returned mean tortuosity                  *)
C6_EqualLengthsWeightedEqMean ==
    (/\ tpc = "done"
     /\ RetainedRows # {}
     /\ \A i, j \in RetainedRows : df[i].len = df[j].len) =>
        FloatEq(tort_ret.weighted, tort_ret.mean)

(* C7: every retained branch has tortuosity = path_length / euclid_length, *)
(* exactly 1 when the two are equal and > 1 when the path is longer;        *)
(* branches with euclid_length <= length_threshold are in neither           *)
(* aggregate; a table whose retained branches are all straight gives (1, 1) *)
C7_TortuosityRatio ==
    tpc = "done" =>
        /\ Len(df_tort) = Cardinality(RetainedRows)
        /\ \A k \in DOMAIN df_tort :
              LET r == df_tort[k]
              IN /\ r.euclid > length_threshold
                 /\ r.tortuosity.kind = "num"
                 /\ r.tortuosity.num * r.euclid = r.len * r.tortuosity.den
                 /\ (r.len = r.euclid => IsOne(r.tortuosity))
                 /\ (r.len > r.euclid => r.tortuosity.num > r.tortuosity.den)
        /\ LET kept == TortTable(SelectSeq(df, LAMBDA r : Euclid(r) > length_threshold))
           IN /\ tort_ret.mean = MeanTortuosity(kept)
              /\ tort_ret.weighted = WeightedTortuosity(kept)
        /\ (RetainedRows # {} /\ \A i \in RetainedRows : df[i].len = Euclid(df[i])) =>
              (IsOne(tort_ret.mean) /\ IsOne(tort_ret.weighted))

C7_Witness ==
    /\ tpc = "done"
    /\ \E i \in DOMAIN df : Euclid(df[i]) = length_threshold
    /\ \E k \in DOMAIN df_tort : df_tort[k].len > df_tort[k].euclid
    /\ \E k \in DOMAIN df_tort : df_tort[k].len = df_tort[k].euclid
    /\ tort_ret.mean.kind = "num" /\ tort_ret.mean.num > tort_ret.mean.den

----------------------------------------------------------------------------
(* Properties of the batch drivers (SpecBatch) *)

(* the processing of case i raises *)
CaseRaises(i) ==
    IF driver \in FlatDrivers THEN cases[i].load_raises
    ELSE /\ cases[i].lobe_file
         /\ (cases[i].load_raises \/ \E l \in DOMAIN cases[i].lobes : cases[i].lobes[l])

(* case i has an entry in the output aggregate *)
Present(i) ==
    IF driver \in FlatDrivers THEN i \in DOMAIN results
    ELSE \E k \in DOMAIN all_results : all_results[k].patient_id = i

(* C4 as stated: every case is attempted, each raising case is reported    *)
(* and absent from the aggregate, each non-raising case is present, and     *)
(* the aggregate is written once, after the last case                       *)
C4_BatchNeverAborts ==
    /\ (bpc \in {"loop", "lobes"} => written = 0)
    /\ (bpc = "done" =>
          /\ written = 1
          /\ idx = Len(cases) + 1
          /\ \A i \in DOMAIN cases :
                cases[i].nifti =>
                   /\ (CaseRaises(i) => (i \in reported /\ ~Present(i)))
                   /\ (~CaseRaises(i) => (Present(i) /\ i \notin reported)))

(* C4 amended: as C4, except that in the per-lobe drivers a case whose     *)
(* lobe file is missing is skipped with a warning, never processed, and is  *)
(* absent from the aggregate                                                 *)
C4_BatchNeverAbortsLobeFile ==
    /\ (bpc \in {"loop", "lobes"} => written = 0)
    /\ (bpc = "done" =>
          /\ written = 1
          /\ idx = Len(cases) + 1
          /\ \A i \in DOMAIN cases :
                cases[i].nifti =>
                   /\ (CaseRaises(i) => (i \in reported /\ ~Present(i)))
                   /\ ((~CaseRaises(i) /\ cases[i].lobe_file) =>
                          (Present(i) /\ i \notin reported))
                   /\ (~cases[i].lobe_file =>
                          (i \in warned /\ ~Present(i) /\ i \notin reported)))

C4_Witness ==
    /\ bpc = "done" /\ written = 1
    /\ \E i, j \in DOMAIN cases :
          /\ i < j /\ cases[i].nifti /\ CaseRaises(i) /\ i \in reported /\ ~Present(i)
          /\ cases[j].nifti /\ ~CaseRaises(j) /\ Present(j)

(* the patient completes: lobe file found, images read, no lobe raises *)
PatientCompletes(i) ==
    /\ cases[i].lobe_file /\ ~cases[i].load_raises
    /\ \A l \in DOMAIN cases[i].lobes : ~cases[i].lobes[l]

RECURSIVE CompleteEntries(_)
CompleteEntries(n) ==
    IF n = 0 THEN <<>>
    ELSE IF PatientCompletes(n)
         THEN Append(CompleteEntries(n - 1),
                     [patient_id |-> n, lobes |-> [l \in DOMAIN cases[n].lobes |-> "value"]])
         ELSE CompleteEntries(n - 1)

(* C10: in the per-lobe drivers the output list holds, in order, exactly   *)
(* one entry for each patient handled so far whose lobe file exists and     *)
(* whose every lobe was computed without raising, with a value for every    *)
(* lobe label; a patient with a raising lobe contributes nothing            *)
C10_PatientAllOrNothing ==
    driver \in LobeDrivers => all_results = CompleteEntries(idx - 1)

C10_Witness ==
    /\ driver \in LobeDrivers /\ bpc = "done"
    /\ \E i, j \in DOMAIN cases :
          /\ i # j
          /\ cases[i].lobe_file /\ ~cases[i].load_raises /\ Len(cases[i].lobes) = 2
          /\ ~cases[i].lobes[1] /\ cases[i].lobes[2] /\ ~Present(i)
          /\ PatientCompletes(j) /\ Len(cases[j].lobes) = 2 /\ Present(j)


====
